---- MODULE Spec2Model ----
(***************************************************************************)
(* Model of the conference client of src/App.tsx: the App component's      *)
(* state of every browser session, the shared roster kept in the Firebase  *)
(* Realtime Database under meetings/{meetingId}/participants, the media    *)
(* streams handed out by getUserMedia / getDisplayMedia, and the           *)
(* continuations of the async handlers that are suspended at an await.     *)
(*                                                                         *)
(* Scheduling: every browser session is single threaded; a handler runs    *)
(* to its next await in one step and its continuation runs as a later      *)
(* step with the values its closure captured when the handler was called.  *)
(* The roster store applies set/update/remove at the call, so the writes   *)
(* of one session keep their order; the promise of an awaited set settles  *)
(* as a later step and a subscriber gets the roster as a later step         *)
(* (Snapshot).                                                             *)
(***************************************************************************)
EXTENDS Integers, Sequences, FiniteSets, TLC

\* ---- bounds of the model ----
MaxClients == 2
MaxMeetings == 1
MaxDevices == 2
MaxStreams == 2
MaxPending == 1
MaxClicks == 4
MaxRosterClicks == 6
MaxShareClicks == 3
MaxDeviceClicks == 3
MaxJoinClicks == 4
MaxLiveClicks == 3
MaxAgentClicks == 3
MaxTabs == 2
MaxTabClicks == 3
MaxInFlight == 4
MaxPlays == 1

\* ---- identifiers ----
AiKey == 0
NoMeeting == 0
NoDevice == 0
NoStream == 0

Clients == 1..MaxClients
Keys == Clients \cup {AiKey}
Meetings == 1..MaxMeetings
Devices == 1..MaxDevices

\* ---- roster records (Participant of the types file) ----
\* A path that holds nothing reads as NoRec.  A record written by update()
\* alone has only the updated fields: hasId is FALSE and role is "none".
NoRec ==
  [exists |-> FALSE, hasId |-> FALSE, isMuted |-> FALSE, isVideoOff |-> FALSE,
   isScreenSharing |-> FALSE, isSpeaking |-> FALSE, role |-> "none"]

LocalUser(muted, videoOff, role) ==
  [exists |-> TRUE, hasId |-> TRUE, isMuted |-> muted, isVideoOff |-> videoOff,
   isScreenSharing |-> FALSE, isSpeaking |-> FALSE, role |-> role]

AI_PARTICIPANT ==
  [exists |-> TRUE, hasId |-> TRUE, isMuted |-> FALSE, isVideoOff |-> FALSE,
   isScreenSharing |-> FALSE, isSpeaking |-> FALSE, role |-> "ai"]

EmptyRoster == [k \in Keys |-> NoRec]

VARIABLES
  db,        \* db[m][k]: the record at meetings/{m}/participants/{k}
  onDisc,    \* the paths <<m, k>> with a registered onDisconnect().remove()
  app,       \* app[c]: the useState values of session c
  listener,  \* listener[c]: the onValue subscription of session c and its closure
  pend,      \* pend[c]: the suspended continuations of session c
  streams,   \* every MediaStream handed out so far
  issued,    \* the meeting ids that exist (created, typed or carried by a link)
  joined,    \* history: joined[c] is the meeting c's startMeeting wrote c into, until c leaves or is removed
  acquired,  \* history: acquired[c] is TRUE once a getUserMedia of c resolved
  hostMuted, \* history: an organizer muted c while c was locally unmuted
  kicked,    \* history: kicked[c] is the meeting an organizer removed joined c from, until c leaves or joins again
  clicks,    \* the number of user gestures so far
  limit,     \* the number of user gestures the run allows
  created,   \* history: created[c] is TRUE while c is in a meeting it entered through createNewMeeting
  lc,        \* lc[c]: the LiveClient of session c and the objects it has created
  tabs       \* the tabs of the BroadcastChannel variant of the app

vars == <<db, onDisc, app, listener, pend, streams, issued, joined, acquired, hostMuted, kicked,
          clicks, limit, created, lc, tabs>>

\* ---- the roster store ----
\* Writes to meetings//participants/... (empty meeting id) reach no roster.
DbSet(d, m, k, rec) ==
  IF m = NoMeeting THEN d ELSE [d EXCEPT ![m][k] = rec]

\* DbUpdate with a fault: the update replaces the record by the one field
DbUpdate_DropsId(d, m, k, field, val) ==
  IF m = NoMeeting THEN d
  ELSE [d EXCEPT ![m][k] = [[NoRec EXCEPT !.exists = TRUE] EXCEPT ![field] = val]]

DbUpdate(d, m, k, field, val) ==
  IF m = NoMeeting THEN d
  ELSE [d EXCEPT ![m][k] = [[@ EXCEPT !.exists = TRUE] EXCEPT ![field] = val]]

DbRemove(d, m, k) ==
  IF m = NoMeeting THEN d ELSE [d EXCEPT ![m][k] = NoRec]

\* ---- media streams ----
\* A stream keeps the device of its audio track, the one setting the code reads
\* (getAudioTracks()[0].getSettings().deviceId), and the enabled flags.
NewStream(kind, aEn, vEn, aDev, owner, mid) ==
  [kind |-> kind, live |-> TRUE, audioEnabled |-> aEn, videoEnabled |-> vEn,
   audioDev |-> aDev, owner |-> owner, endedMid |-> mid]

StopTracks(ss, s) ==
  IF s = NoStream THEN ss ELSE [ss EXCEPT ![s].live = FALSE]

SetAudioEnabled(ss, s, en) ==
  IF s = NoStream THEN ss ELSE [ss EXCEPT ![s].audioEnabled = en]

SetVideoEnabled(ss, s, en) ==
  IF s = NoStream THEN ss ELSE [ss EXCEPT ![s].videoEnabled = en]

\* ---- the App component ----
InitApp ==
  [step |-> "landing", meetingId |-> NoMeeting, localRole |-> "guest",
   participants |-> EmptyRoster, isMuted |-> FALSE, isVideoOff |-> FALSE,
   localStream |-> NoStream, screenStream |-> NoStream,
   selectedAudioId |-> NoDevice, selectedVideoId |-> NoDevice,
   audioDevices |-> {}, videoDevices |-> {},
   isAuthReady |-> FALSE, dbError |-> FALSE]

\* mount effect: a meetingId in the URL makes the session a guest at 'name'
InitFromUrl(m) ==
  [InitApp EXCEPT !.meetingId = m, !.step = "name"]

NoListener ==
  [active |-> FALSE, pending |-> FALSE, meetingId |-> NoMeeting,
   isMuted |-> FALSE, localStream |-> NoStream, screenStream |-> NoStream,
   isAuthReady |-> FALSE]

\* The roster effect (deps step, meetingId, isAuthReady): it re-runs when a
\* dependency changed, and its handler closes over the values of that render.
Resubscribe(old, new, l) ==
  IF <<old.step, old.meetingId, old.isAuthReady>> = <<new.step, new.meetingId, new.isAuthReady>>
  THEN l
  ELSE IF new.step = "meeting" /\ new.meetingId # NoMeeting /\ new.isAuthReady
       THEN [active |-> TRUE, pending |-> TRUE, meetingId |-> new.meetingId,
             isMuted |-> new.isMuted, localStream |-> new.localStream,
             screenStream |-> new.screenStream, isAuthReady |-> new.isAuthReady]
       ELSE NoListener

\* A value event is due for every subscription whose roster changed.
Notify(l, d, d2) ==
  IF l.active /\ d[l.meetingId] # d2[l.meetingId] THEN [l EXCEPT !.pending = TRUE] ELSE l

\* One step of session c: the new component state a2, the new store d2; the
\* effect of c re-runs and the subscribers of a changed roster are notified.
Commit(c, l0, a2, d2) ==
  /\ app' = [app EXCEPT ![c] = a2]
  /\ db' = d2
  /\ listener' = [x \in Clients |->
                    Notify(IF x = c THEN Resubscribe(app[c], a2, l0[c]) ELSE l0[x], db, d2)]

\* ---- continuations ----
\* A continuation holds the values of the render it was created in; the fields
\* its code never reads are left at their defaults.
Cont(op, a) ==
  [op |-> op,
   meetingId |-> IF op \in {"set", "display"} THEN a.meetingId ELSE NoMeeting,
   localRole |-> IF op = "set" THEN a.localRole ELSE "guest",
   isMuted |-> IF op \in {"set", "devchg"} THEN a.isMuted ELSE FALSE,
   isVideoOff |-> IF op \in {"set", "devchg"} THEN a.isVideoOff ELSE FALSE,
   localStream |-> IF op \in {"set", "devchg"} THEN a.localStream ELSE NoStream,
   audioId |-> a.selectedAudioId, videoId |-> a.selectedVideoId,
   ok |-> TRUE]

Drop(q, i) == SubSeq(q, 1, i - 1) \o SubSeq(q, i + 1, Len(q))

GhostSame == UNCHANGED <<joined, acquired, hostMuted, kicked, created>>

\* the handlers of App.tsx that do not touch the voice agent
AgentSame == UNCHANGED <<lc, tabs>>

\* a user gesture (a click or a selection); the model bounds their number
Click ==
  /\ clicks < limit
  /\ clicks' = clicks + 1
  /\ limit' = limit

NoClick == UNCHANGED <<clicks, limit>>

\* audio[0] / video[0] of enumerateDevices()
FirstDevice == 1

\* ---- authentication and navigation ----
\* onAuthStateChanged / signInAnonymously: every outcome sets isAuthReady
AuthReady(c) ==
  /\ NoClick
  /\ AgentSame
  /\ ~app[c].isAuthReady
  /\ Commit(c, listener, [app[c] EXCEPT !.isAuthReady = TRUE], db)
  /\ UNCHANGED <<onDisc, pend, streams, issued>>
  /\ GhostSame

\* the random id is one nobody holds yet
\* CreateNewMeeting with a fault: setLocalRole('host') is missing
CreateNewMeeting_Guest(c) ==
  /\ Click
  /\ AgentSame
  /\ app[c].step = "landing"
  /\ app[c].isAuthReady
  /\ \E m \in Meetings \ issued :
       /\ Commit(c, listener,
                 [app[c] EXCEPT !.meetingId = m, !.step = "name"], db)
       /\ issued' = issued \cup {m}
  /\ UNCHANGED <<onDisc, pend, streams>>
  /\ created' = [created EXCEPT ![c] = TRUE]
  /\ UNCHANGED <<joined, acquired, hostMuted, kicked>>

CreateNewMeeting(c) ==
  /\ Click
  /\ AgentSame
  /\ app[c].step = "landing"
  /\ app[c].isAuthReady
  /\ \E m \in Meetings \ issued :
       /\ Commit(c, listener,
                 [app[c] EXCEPT !.meetingId = m, !.localRole = "host", !.step = "name"], db)
       /\ issued' = issued \cup {m}
  /\ UNCHANGED <<onDisc, pend, streams>>
  /\ created' = [created EXCEPT ![c] = TRUE]
  /\ UNCHANGED <<joined, acquired, hostMuted, kicked>>

JoinWithCode(c) ==
  /\ Click
  /\ AgentSame
  /\ app[c].step = "landing"
  /\ app[c].isAuthReady
  /\ \E m \in Meetings :
       /\ Commit(c, listener,
                 [app[c] EXCEPT !.meetingId = m, !.localRole = "guest", !.step = "name"], db)
       /\ issued' = issued \cup {m}
  /\ UNCHANGED <<onDisc, pend, streams>>
  /\ created' = [created EXCEPT ![c] = FALSE]
  /\ UNCHANGED <<joined, acquired, hostMuted, kicked>>

\* the back button of the name screen: setStep('landing') and nothing else
BackToLanding(c) ==
  /\ Click
  /\ AgentSame
  /\ app[c].step = "name"
  /\ Commit(c, listener, [app[c] EXCEPT !.step = "landing"], db)
  /\ UNCHANGED <<onDisc, pend, streams, issued>>
  /\ GhostSame

\* ---- handleNameSubmit / refreshDevices(true) ----
HandleNameSubmit(c) ==
  /\ Click
  /\ AgentSame
  /\ app[c].step = "name"
  /\ Len(pend[c]) < MaxPending
  /\ pend' = [pend EXCEPT ![c] = Append(@, Cont("refresh", app[c]))]
  /\ UNCHANGED <<db, onDisc, app, listener, streams, issued>>
  /\ GhostSame

\* getUserMedia({audio: true, video: true}) resolved with the default devices
RefreshResolved(c, i) ==
  /\ Len(streams) < MaxStreams
  /\ \E da \in Devices :
       streams' = Append(streams, NewStream("camera", TRUE, TRUE, da, c, NoMeeting))
  /\ Commit(c, listener,
            [app[c] EXCEPT
               !.localStream = Len(streams) + 1,
               !.audioDevices = Devices,
               !.videoDevices = Devices,
               !.selectedAudioId = IF pend[c][i].audioId = NoDevice THEN FirstDevice ELSE @,
               !.selectedVideoId = IF pend[c][i].videoId = NoDevice THEN FirstDevice ELSE @,
               !.step = "lobby"], db)
  /\ acquired' = [acquired EXCEPT ![c] = TRUE]

\* getUserMedia rejected: the catch logs, and the then() still opens the lobby
RefreshRejected(c, i) ==
  /\ Commit(c, listener, [app[c] EXCEPT !.step = "lobby"], db)
  /\ UNCHANGED <<streams, acquired>>

RefreshDone(c, i) ==
  /\ NoClick
  /\ AgentSame
  /\ i \in DOMAIN pend[c]
  /\ pend[c][i].op = "refresh"
  /\ \/ RefreshResolved(c, i)
     \/ RefreshRejected(c, i)
  /\ pend' = [pend EXCEPT ![c] = Drop(@, i)]
  /\ UNCHANGED <<onDisc, issued, joined, hostMuted, kicked, created>>

\* ---- handleDeviceChange ----
\* The selectors list audioDevices / videoDevices and fire on a changed value.
HandleDeviceChange(c) ==
  /\ Click
  /\ AgentSame
  /\ app[c].step \in {"lobby", "meeting"}
  /\ \E a1 \in {[app[c] EXCEPT !.selectedAudioId = d] :
                   d \in app[c].audioDevices \ {app[c].selectedAudioId}}
            \cup {[app[c] EXCEPT !.selectedVideoId = d] :
                   d \in app[c].videoDevices \ {app[c].selectedVideoId}} :
       /\ Commit(c, listener, a1, db)
       /\ IF app[c].localStream # NoStream
          THEN /\ Len(pend[c]) < MaxPending
               /\ pend' = [pend EXCEPT ![c] = Append(@, Cont("devchg", a1))]
          ELSE pend' = pend
  /\ UNCHANGED <<onDisc, streams, issued>>
  /\ GhostSame

\* the stream getUserMedia resolves with for the constraints of continuation k
Acquired(k, c, da) ==
  NewStream("camera", ~k.isMuted, ~k.isVideoOff,
            IF k.audioId = NoDevice THEN da ELSE k.audioId, c, NoMeeting)

DeviceResolved(c, i) ==
  /\ Len(streams) < MaxStreams
  /\ \E da \in Devices :
       streams' = Append(StopTracks(streams, pend[c][i].localStream),
                         Acquired(pend[c][i], c, da))
  /\ Commit(c, listener, [app[c] EXCEPT !.localStream = Len(streams) + 1], db)
  /\ acquired' = [acquired EXCEPT ![c] = TRUE]

DeviceRejected(c, i) ==
  UNCHANGED <<db, app, listener, streams, acquired>>

DeviceDone(c, i) ==
  /\ NoClick
  /\ AgentSame
  /\ i \in DOMAIN pend[c]
  /\ pend[c][i].op = "devchg"
  /\ \/ DeviceResolved(c, i)
     \/ DeviceRejected(c, i)
  /\ pend' = [pend EXCEPT ![c] = Drop(@, i)]
  /\ UNCHANGED <<onDisc, issued, joined, hostMuted, kicked, created>>

\* ---- startMeeting ----
\* StartMeeting with a fault: the join skips the roster write
StartMeeting_SkipsSet(c) ==
  /\ Click
  /\ AgentSame
  /\ app[c].step = "lobby"
  /\ app[c].isAuthReady
  /\ Commit(c, listener, [app[c] EXCEPT !.step = "meeting"], db)
  /\ UNCHANGED <<onDisc, pend, streams, issued>>
  /\ GhostSame

\* steps 1 and 2 up to the await: the store accepts the record (ok) or not
StartMeeting(c) ==
  /\ Click
  /\ AgentSame
  /\ app[c].step = "lobby"
  /\ app[c].isAuthReady
  /\ Len(pend[c]) < MaxPending
  /\ \E ok \in BOOLEAN :
       /\ pend' = [pend EXCEPT ![c] = Append(@, [Cont("set", app[c]) EXCEPT !.ok = ok])]
       /\ Commit(c, listener, app[c],
                 IF ok THEN DbSet(db, app[c].meetingId, c,
                                  LocalUser(app[c].isMuted, app[c].isVideoOff, app[c].localRole))
                       ELSE db)
       /\ IF ok
          THEN /\ joined' = [joined EXCEPT ![c] = app[c].meetingId]
               /\ hostMuted' = [hostMuted EXCEPT ![c] = FALSE]
               /\ kicked' = [kicked EXCEPT ![c] = NoMeeting]
          ELSE UNCHANGED <<joined, hostMuted, kicked>>
  /\ UNCHANGED <<onDisc, streams, issued, acquired, created>>

\* step 5: a stream is acquired unless one is held on the selected microphone
NeedsStream(k) ==
  \/ k.localStream = NoStream
  \/ streams[k.localStream].audioDev # k.audioId

\* await set(userRef, localUser) resolved: steps 3, 4 and 5 up to the next await
SetResolved(c, i) ==
  LET k == pend[c][i]
      ai == IF k.localRole = "host"
            THEN <<[Cont("ai", app[c]) EXCEPT !.meetingId = k.meetingId,
                                              !.audioId = NoDevice, !.videoId = NoDevice]>>
            ELSE <<>>
      gum == IF NeedsStream(k) THEN <<[k EXCEPT !.op = "gum"]>> ELSE <<>>
  IN /\ k.ok
     /\ Commit(c, listener,
               IF NeedsStream(k) THEN app[c] ELSE [app[c] EXCEPT !.step = "meeting"], db)
     /\ onDisc' = onDisc \cup {<<k.meetingId, c>>}
     /\ pend' = [pend EXCEPT ![c] = Drop(@, i) \o ai \o gum]

\* SetRejected with a fault: the catch falls through to the end of startMeeting
SetRejected_Proceeds(c, i) ==
  /\ ~pend[c][i].ok
  /\ Commit(c, listener, [app[c] EXCEPT !.step = "meeting"], db)
  /\ pend' = [pend EXCEPT ![c] = Drop(@, i)]
  /\ UNCHANGED onDisc

\* await set(...) rejected: PERMISSION_DENIED shows the rules dialog, anything
\* else an alert; both return
SetRejected(c, i) ==
  /\ ~pend[c][i].ok
  /\ \E denied \in BOOLEAN :
       Commit(c, listener, [app[c] EXCEPT !.dbError = @ \/ denied], db)
  /\ pend' = [pend EXCEPT ![c] = Drop(@, i)]
  /\ UNCHANGED onDisc

SetDone(c, i) ==
  /\ NoClick
  /\ AgentSame
  /\ i \in DOMAIN pend[c]
  /\ pend[c][i].op = "set"
  /\ \/ SetResolved(c, i)
     \/ SetRejected(c, i)
  /\ UNCHANGED <<streams, issued>>
  /\ GhostSame

GumResolved(c, i) ==
  /\ Len(streams) < MaxStreams
  /\ \E da \in Devices :
       streams' = Append(streams, Acquired(pend[c][i], c, da))
  /\ Commit(c, listener,
            [app[c] EXCEPT !.localStream = Len(streams) + 1, !.step = "meeting"], db)
  /\ acquired' = [acquired EXCEPT ![c] = TRUE]

\* GumRejected with a fault: the rejection escapes and setStep('meeting') is skipped
GumRejected_Stuck(c, i) ==
  UNCHANGED <<db, app, listener, streams, acquired>>

GumRejected(c, i) ==
  /\ Commit(c, listener, [app[c] EXCEPT !.step = "meeting"], db)
  /\ UNCHANGED <<streams, acquired>>

GumDone(c, i) ==
  /\ NoClick
  /\ AgentSame
  /\ i \in DOMAIN pend[c]
  /\ pend[c][i].op = "gum"
  /\ \/ GumResolved(c, i)
     \/ GumRejected(c, i)
  /\ pend' = [pend EXCEPT ![c] = Drop(@, i)]
  /\ UNCHANGED <<onDisc, issued, joined, hostMuted, kicked, created>>

\* step 4: get(aiRef).then(...): the AI record is written when there is none
AiResolved(c, i) ==
  LET m == pend[c][i].meetingId
  IN Commit(c, listener, app[c],
            IF m # NoMeeting /\ ~db[m][AiKey].exists
            THEN DbSet(db, m, AiKey, AI_PARTICIPANT) ELSE db)

AiRejected(c, i) ==
  UNCHANGED <<db, app, listener>>

AiDone(c, i) ==
  /\ NoClick
  /\ AgentSame
  /\ i \in DOMAIN pend[c]
  /\ pend[c][i].op = "ai"
  /\ \/ AiResolved(c, i)
     \/ AiRejected(c, i)
  /\ pend' = [pend EXCEPT ![c] = Drop(@, i)]
  /\ UNCHANGED <<onDisc, streams, issued>>
  /\ GhostSame

\* ---- LiveClient (services/liveClient.ts) ----
\* A LiveClient with the objects it has created so far.  The two audio
\* contexts are created, closed and dropped together and are kept as one
\* pair; so are the processor and the source node.
\*   ctx, stream, node, sessionPromise: the fields (NoObject is null)
\*   pairs[i]: the i-th pair of audio contexts is open
\*   mics[i]: the tracks of the i-th microphone stream are live
\*   nodes[i]: the i-th processor, the pair it runs in, still wired or not
\*   sessions[i]: the i-th live session and whether close() was asked for
\*   calls: the connect() calls suspended at an await
\*   plays: the audio buffers that are playing (onended still to come)
\*   out: the callbacks and audio frames the last step raised
\*   sinceDisc: history, disconnect() was called and connect() not since
\*   torn: history, a disconnect() tore the client down and connect() was not called since
NoObject == 0

NewLiveClient ==
  [isConnected |-> FALSE, ctx |-> NoObject, stream |-> NoObject, node |-> NoObject,
   sessionPromise |-> NoObject,
   pairs |-> <<>>, mics |-> <<>>, nodes |-> <<>>, sessions |-> <<>>,
   calls |-> <<>>, plays |-> 0, out |-> {}, sinceDisc |-> FALSE, torn |-> FALSE]

Close(q, i) == IF i = NoObject THEN q ELSE [q EXCEPT ![i] = FALSE]

\* LiveTeardown with a fault: the speaking callback is not raised
LiveTeardown_Silent(w) ==
  [w EXCEPT !.isConnected = FALSE,
            !.out = {"connection_false"},
            !.nodes = IF w.node = NoObject THEN @ ELSE [@ EXCEPT ![w.node].wired = FALSE],
            !.mics = Close(@, w.stream),
            !.pairs = Close(@, w.ctx),
            !.sessions = IF w.sessionPromise = NoObject THEN @
                         ELSE [@ EXCEPT ![w.sessionPromise].closeAsked = TRUE],
            !.sessionPromise = NoObject, !.ctx = NoObject,
            !.stream = NoObject, !.node = NoObject, !.torn = TRUE]

\* disconnect() past its guard
LiveTeardown(w) ==
  [w EXCEPT !.isConnected = FALSE,
            !.out = {"connection_false", "speaking_false"},
            !.nodes = IF w.node = NoObject THEN @ ELSE [@ EXCEPT ![w.node].wired = FALSE],
            !.mics = Close(@, w.stream),
            !.pairs = Close(@, w.ctx),
            !.sessions = IF w.sessionPromise = NoObject THEN @
                         ELSE [@ EXCEPT ![w.sessionPromise].closeAsked = TRUE],
            !.sessionPromise = NoObject, !.ctx = NoObject,
            !.stream = NoObject, !.node = NoObject, !.torn = TRUE]

\* disconnect(), called by the app or by a session callback
LiveDisconnect(w) ==
  IF ~w.isConnected /\ w.sessionPromise = NoObject
  THEN [w EXCEPT !.out = {}]
  ELSE LiveTeardown(w)

\* the app calls liveClient.current.disconnect()
AppDisconnect(w) == [LiveDisconnect(w) EXCEPT !.sinceDisc = TRUE]

\* connect() up to its first await
LiveConnect(w) ==
  IF w.isConnected THEN [w EXCEPT !.out = {}, !.torn = FALSE]
  ELSE [w EXCEPT !.pairs = Append(@, TRUE), !.torn = FALSE,
                 !.ctx = Len(w.pairs) + 1,
                 !.calls = Append(@, [pos |-> "resumeIn", pair |-> Len(w.pairs) + 1]),
                 !.out = {}]

\* the app calls liveClient.current.connect(selectedAudioId)
AppConnect(w) == [LiveConnect(w) EXCEPT !.sinceDisc = FALSE]

\* await inputAudioContext.resume() is over: a closed context rejects, and
\* outputAudioContext.resume() throws when the field is null by now
LiveResumedIn(w, i) ==
  IF ~w.pairs[w.calls[i].pair] \/ w.ctx = NoObject
  THEN [w EXCEPT !.calls = Drop(@, i), !.out = {}]
  ELSE [w EXCEPT !.calls[i] = [pos |-> "resumeOut", pair |-> w.ctx], !.out = {}]

\* await outputAudioContext.resume() is over; getUserMedia is called
LiveResumedOut(w, i) ==
  IF ~w.pairs[w.calls[i].pair]
  THEN [w EXCEPT !.calls = Drop(@, i), !.out = {}]
  ELSE [w EXCEPT !.calls[i].pos = "gum", !.out = {}]

\* getUserMedia rejected: "Microphone access denied", return
LiveGumRejected(w, i) == [w EXCEPT !.calls = Drop(@, i), !.out = {}]

\* getUserMedia resolved and ai.live.connect() returned the session promise
LiveGumResolved(w, i) ==
  [w EXCEPT !.calls = Drop(@, i),
            !.mics = Append(@, TRUE),
            !.stream = Len(w.mics) + 1,
            !.sessions = Append(@, [state |-> "connecting", closeAsked |-> FALSE]),
            !.sessionPromise = Len(w.sessions) + 1,
            !.out = {}]

\* getUserMedia resolved and ai.live.connect() threw: the catch disconnects
LiveGumThrew(w, i) ==
  LiveDisconnect([w EXCEPT !.calls = Drop(@, i),
                           !.mics = Append(@, TRUE),
                           !.stream = Len(w.mics) + 1])

\* the onopen callback of session s
LiveOnOpen(w, s) ==
  LET w1 == [w EXCEPT !.sessions[s].state = "open",
                      !.isConnected = TRUE,
                      !.out = {"connection_true"}]
  IN IF w.ctx = NoObject \/ w.stream = NoObject THEN w1
     ELSE [w1 EXCEPT !.nodes = Append(@, [pair |-> w.ctx, wired |-> TRUE]),
                     !.node = Len(w.nodes) + 1]

\* onaudioprocess of a processor: a frame goes to the session of the
\* sessionPromise field when the client is connected and the session is open
LiveAudioProcess(w) ==
  [w EXCEPT !.out = IF /\ w.isConnected
                       /\ w.sessionPromise # NoObject
                       /\ w.sessions[w.sessionPromise].state = "open"
                    THEN {"frame"} ELSE {}]

\* the onmessage callback with an audio part
LiveOnMessage(w) ==
  IF w.ctx = NoObject THEN [w EXCEPT !.out = {}]
  ELSE [w EXCEPT !.out = {"speaking_true"}, !.plays = @ + 1]

\* onended of a buffer source; caughtUp: currentTime >= nextStartTime
LiveOnEnded(w, caughtUp) ==
  [w EXCEPT !.plays = @ - 1,
            !.out = IF w.ctx # NoObject /\ caughtUp THEN {"speaking_false"} ELSE {}]

\* the onclose callback of session s
LiveOnClose(w, s) == LiveDisconnect([w EXCEPT !.sessions[s].state = "closed"])

\* the onerror callback of session s; the socket closes after an error, and
\* the onclose that follows at once is part of the step (its disconnect()
\* finds the client already torn down)
LiveOnError(w, s) == LiveDisconnect([w EXCEPT !.sessions[s].state = "closed"])

\* liveClient.current.onSpeakingStateChange, set by the mount effect: its
\* localRole and meetingId are those of the first render
OnSpeakingStateChange(d, speaking) ==
  IF InitApp.localRole = "host" /\ InitApp.meetingId # NoMeeting
  THEN DbUpdate(d, InitApp.meetingId, AiKey, "isSpeaking", speaking)
  ELSE d

\* the roster after the callbacks of a LiveClient step
Raised(d, w) ==
  IF "speaking_true" \in w.out THEN OnSpeakingStateChange(d, TRUE)
  ELSE IF "speaking_false" \in w.out THEN OnSpeakingStateChange(d, FALSE)
  ELSE d

\* the variant of part_002 is not running
NoTabs == <<>>

\* ---- leaveMeeting ----
LeaveApp(a) ==
  [a EXCEPT !.step = "landing", !.meetingId = NoMeeting, !.localRole = "guest",
            !.participants = EmptyRoster, !.localStream = NoStream,
            !.screenStream = NoStream]

\* LeaveDb with a fault: leaveMeeting forgets to remove the record
LeaveDb_NoRemove(d, c, mid, auth) == d

LeaveDb(d, c, mid, auth) ==
  IF auth THEN DbRemove(d, mid, c) ELSE d

LeaveStreams(ss, ls, scr) == StopTracks(StopTracks(ss, ls), scr)

LeaveGhost(c) ==
  /\ joined' = [joined EXCEPT ![c] = NoMeeting]
  /\ hostMuted' = [hostMuted EXCEPT ![c] = FALSE]
  /\ kicked' = [kicked EXCEPT ![c] = NoMeeting]
  /\ created' = [created EXCEPT ![c] = FALSE]
  /\ UNCHANGED acquired

LeaveMeeting(c) ==
  /\ Click
  /\ app[c].step = "meeting"
  /\ Commit(c, listener, LeaveApp(app[c]),
            LeaveDb(db, c, app[c].meetingId, app[c].isAuthReady))
  /\ streams' = LeaveStreams(streams, app[c].localStream, app[c].screenStream)
  /\ LeaveGhost(c)
  /\ lc' = [lc EXCEPT ![c] = AppDisconnect(@)]
  /\ UNCHANGED <<onDisc, pend, issued, tabs>>

\* ---- toggleMute / toggleVideo / updateMyStatus ----
UpdateMyStatus(d, c, mid, field, val) == DbUpdate(d, mid, c, field, val)

ToggleMute(c) ==
  /\ Click
  /\ AgentSame
  /\ app[c].step \in {"lobby", "meeting"}
  /\ streams' = SetAudioEnabled(streams, app[c].localStream, ~app[c].isMuted)
  /\ Commit(c, listener, [app[c] EXCEPT !.isMuted = ~@],
            UpdateMyStatus(db, c, app[c].meetingId, "isMuted", ~app[c].isMuted))
  /\ hostMuted' = [hostMuted EXCEPT ![c] = FALSE]
  /\ UNCHANGED <<onDisc, pend, issued, joined, acquired, kicked, created>>

ToggleVideo(c) ==
  /\ Click
  /\ AgentSame
  /\ app[c].step \in {"lobby", "meeting"}
  /\ streams' = SetVideoEnabled(streams, app[c].localStream, ~app[c].isVideoOff)
  /\ Commit(c, listener, [app[c] EXCEPT !.isVideoOff = ~@],
            UpdateMyStatus(db, c, app[c].meetingId, "isVideoOff", ~app[c].isVideoOff))
  /\ UNCHANGED <<onDisc, pend, issued>>
  /\ GhostSame

\* ---- toggleScreenShare ----
ToggleScreenShare(c) ==
  /\ Click
  /\ AgentSame
  /\ app[c].step = "meeting"
  /\ IF app[c].screenStream # NoStream
     THEN /\ streams' = StopTracks(streams, app[c].screenStream)
          /\ Commit(c, listener, [app[c] EXCEPT !.screenStream = NoStream],
                    UpdateMyStatus(db, c, app[c].meetingId, "isScreenSharing", FALSE))
          /\ pend' = pend
     ELSE /\ Len(pend[c]) < MaxPending
          /\ pend' = [pend EXCEPT ![c] = Append(@, Cont("display", app[c]))]
          /\ UNCHANGED <<db, app, listener, streams>>
  /\ UNCHANGED <<onDisc, issued>>
  /\ GhostSame

DisplayResolved(c, i) ==
  /\ Len(streams) < MaxStreams
  /\ streams' = Append(streams, NewStream("screen", FALSE, TRUE, NoDevice, c,
                                          pend[c][i].meetingId))
  /\ Commit(c, listener, [app[c] EXCEPT !.screenStream = Len(streams) + 1],
            UpdateMyStatus(db, c, pend[c][i].meetingId, "isScreenSharing", TRUE))

DisplayRejected(c, i) ==
  UNCHANGED <<db, app, listener, streams>>

DisplayDone(c, i) ==
  /\ NoClick
  /\ AgentSame
  /\ i \in DOMAIN pend[c]
  /\ pend[c][i].op = "display"
  /\ \/ DisplayResolved(c, i)
     \/ DisplayRejected(c, i)
  /\ pend' = [pend EXCEPT ![c] = Drop(@, i)]
  /\ UNCHANGED <<onDisc, issued>>
  /\ GhostSame

\* onended of the capture's video track: the user or the browser ended it
CaptureEnded(c, s) ==
  /\ Click
  /\ AgentSame
  /\ s \in DOMAIN streams
  /\ streams[s].kind = "screen" /\ streams[s].owner = c /\ streams[s].live
  /\ streams' = [streams EXCEPT ![s].live = FALSE]
  /\ Commit(c, listener, [app[c] EXCEPT !.screenStream = NoStream],
            UpdateMyStatus(db, c, streams[s].endedMid, "isScreenSharing", FALSE))
  /\ UNCHANGED <<onDisc, pend, issued>>
  /\ GhostSame

\* ---- the roster subscription (onValue handler) ----
\* The handler and the leaveMeeting it calls are the closures of the render
\* that subscribed: they read listener[c], not the current component state.
SnapshotLeave(c, l0) ==
  LET l == listener[c]
  IN /\ Commit(c, l0, LeaveApp(app[c]), LeaveDb(db, c, l.meetingId, l.isAuthReady))
     /\ streams' = LeaveStreams(streams, l.localStream, l.screenStream)
     /\ LeaveGhost(c)
     /\ lc' = [lc EXCEPT ![c] = AppDisconnect(@)]

\* "Check if I was muted by host", with the isMuted of the subscribing render
MutedByHost(c, l, data) == data[c].isMuted /\ ~l.isMuted

\* ListApp with a fault: entries of earlier snapshots are kept
ListApp_Merges(c, a, l, data) ==
  [a EXCEPT !.participants = [k \in Keys |-> IF data[k].exists THEN data[k] ELSE @[k]],
            !.isMuted = IF MutedByHost(c, l, data) THEN TRUE ELSE @]

\* the state the handler sets for a snapshot that lists the session
ListApp(c, a, l, data) ==
  [a EXCEPT !.participants = data,
            !.isMuted = IF MutedByHost(c, l, data) THEN TRUE ELSE @]

ListStreams(c, ss, l, data) ==
  IF MutedByHost(c, l, data) THEN SetAudioEnabled(ss, l.localStream, FALSE) ELSE ss

SnapshotList(c, l0) ==
  LET l == listener[c]
      data == db[l.meetingId]
  IN /\ Commit(c, l0, ListApp(c, app[c], l, data), db)
     /\ streams' = ListStreams(c, streams, l, data)
     /\ GhostSame
     /\ UNCHANGED lc

SnapshotEmpty(c, l0) ==
  /\ Commit(c, l0, [app[c] EXCEPT !.participants = EmptyRoster], db)
  /\ UNCHANGED streams
  /\ GhostSame
  /\ UNCHANGED lc

Snapshot(c) ==
  /\ NoClick
  /\ listener[c].active /\ listener[c].pending
  /\ LET data == db[listener[c].meetingId]
         l0 == [listener EXCEPT ![c].pending = FALSE]
     IN IF \E k \in Keys : data[k].exists
        THEN IF data[c].exists /\ data[c].hasId
             THEN SnapshotList(c, l0)
             ELSE SnapshotLeave(c, l0)
        ELSE SnapshotEmpty(c, l0)
  /\ UNCHANGED <<onDisc, pend, issued, tabs>>

\* ---- host controls ----
\* renderSidebar: the controls are rendered for a session whose own entry of
\* its participant list has role 'host', next to every other non-AI entry.
IsLocalHost(c) ==
  /\ app[c].participants[c].exists
  /\ app[c].participants[c].hasId
  /\ app[c].participants[c].role = "host"

Targets(c) ==
  {t \in Clients \ {c} : app[c].participants[t].exists /\ app[c].participants[t].hasId}

\* the role the roster gives session c in meeting m
RosterRole(c, m) ==
  IF m # NoMeeting /\ db[m][c].exists THEN db[m][c].role ELSE "none"

\* history: organizer c writes isMuted = v into the record of t
HostMutes(c, t, v) ==
  LET m == app[c].meetingId
  IN IF ~v THEN FALSE
     ELSE IF /\ RosterRole(c, m) = "host"
             /\ joined[t] = m /\ db[m][t].exists /\ db[m][t].hasId
             /\ listener[t].active /\ listener[t].meetingId = m
             /\ ~app[t].isMuted
          THEN TRUE
          ELSE hostMuted[t]

MuteAllTargets(c) ==
  {t \in Targets(c) : /\ app[c].participants[t].role \notin {"host", "ai"}
                      /\ ~app[c].participants[t].isMuted}

MuteAll(c) ==
  /\ Click
  /\ AgentSame
  /\ app[c].step = "meeting"
  /\ IsLocalHost(c)
  /\ MuteAllTargets(c) # {}
  /\ Commit(c, listener, app[c],
            IF app[c].meetingId = NoMeeting THEN db
            ELSE [db EXCEPT ![app[c].meetingId] =
                    [k \in Keys |-> IF k \in MuteAllTargets(c)
                                    THEN [@[k] EXCEPT !.exists = TRUE, !.isMuted = TRUE]
                                    ELSE @[k]]])
  /\ hostMuted' = [t \in Clients |->
                     IF t \in MuteAllTargets(c) THEN HostMutes(c, t, TRUE) ELSE hostMuted[t]]
  /\ UNCHANGED <<onDisc, pend, streams, issued, joined, acquired, kicked, created>>

MuteParticipant(c, t) ==
  /\ Click
  /\ AgentSame
  /\ app[c].step = "meeting"
  /\ IsLocalHost(c)
  /\ t \in Targets(c)
  /\ Commit(c, listener, app[c],
            DbUpdate(db, app[c].meetingId, t, "isMuted", ~app[c].participants[t].isMuted))
  /\ hostMuted' = [hostMuted EXCEPT ![t] = HostMutes(c, t, ~app[c].participants[t].isMuted)]
  /\ UNCHANGED <<onDisc, pend, streams, issued, joined, acquired, kicked, created>>

KickParticipant(c, t) ==
  /\ Click
  /\ AgentSame
  /\ app[c].step = "meeting"
  /\ IsLocalHost(c)
  /\ t \in Targets(c)
  /\ Commit(c, listener, app[c], DbRemove(db, app[c].meetingId, t))
  /\ LET m == app[c].meetingId
         hit == m # NoMeeting /\ joined[t] = m
     IN /\ kicked' = [kicked EXCEPT ![t] = IF hit /\ RosterRole(c, m) = "host" THEN m ELSE @]
        /\ joined' = [joined EXCEPT ![t] = IF hit THEN NoMeeting ELSE @]
        /\ hostMuted' = [hostMuted EXCEPT ![t] = IF hit THEN FALSE ELSE @]
  /\ UNCHANGED <<onDisc, pend, streams, issued, acquired, created>>

ToggleParticipantRole(c, t) ==
  /\ Click
  /\ AgentSame
  /\ app[c].step = "meeting"
  /\ IsLocalHost(c)
  /\ t \in Targets(c)
  /\ Commit(c, listener, app[c],
            DbUpdate(db, app[c].meetingId, t, "role",
                     IF app[c].participants[t].role = "host" THEN "guest" ELSE "host"))
  /\ UNCHANGED <<onDisc, pend, streams, issued>>
  /\ GhostSame

\* Spec: one browser session with every handler a single user reaches.
Session == {1}

Init ==
  /\ db = [m \in Meetings |-> EmptyRoster]
  /\ onDisc = {}
  /\ app \in [Clients -> {InitApp} \cup {InitFromUrl(m) : m \in Meetings}]
  /\ \A c \in Clients \ Session : app[c] = InitApp
  /\ listener = [c \in Clients |-> NoListener]
  /\ pend = [c \in Clients |-> <<>>]
  /\ streams = <<>>
  /\ issued = {app[c].meetingId : c \in Clients} \ {NoMeeting}
  /\ joined = [c \in Clients |-> NoMeeting]
  /\ acquired = [c \in Clients |-> FALSE]
  /\ hostMuted = [c \in Clients |-> FALSE]
  /\ kicked = [c \in Clients |-> NoMeeting]
  /\ clicks = 0
  /\ limit = MaxClicks
  /\ created = [c \in Clients |-> FALSE]
  /\ lc = [c \in Clients |-> NewLiveClient]
  /\ tabs = NoTabs

\* the continuations of session c
Continue(c) ==
  \E i \in 1..(2 * MaxPending) :
    \/ RefreshDone(c, i)
    \/ DeviceDone(c, i)
    \/ SetDone(c, i)
    \/ GumDone(c, i)
    \/ AiDone(c, i)
    \/ DisplayDone(c, i)


Next ==
  \E c \in Session :
    \/ AuthReady(c)
    \/ CreateNewMeeting(c)
    \/ JoinWithCode(c)
    \/ BackToLanding(c)
    \/ HandleNameSubmit(c)
    \/ HandleDeviceChange(c)
    \/ StartMeeting(c)
    \/ LeaveMeeting(c)
    \/ ToggleMute(c)
    \/ ToggleVideo(c)
    \/ ToggleScreenShare(c)
    \/ Snapshot(c)
    \/ Continue(c)
    \/ \E s \in 1..MaxStreams : CaptureEnded(c, s)

Spec == Init /\ [][Next]_vars

\* SpecRoster: every session of one meeting, from the lobby on, with the
\* handlers that read and write the roster: joining, leaving, muting and the
\* host controls.  It starts where session 1 has created meeting 1, the
\* others have opened its link, and each has passed the name screen with a
\* preview stream on the first listed devices.
Lobby(c) ==
  [InitApp EXCEPT !.step = "lobby", !.meetingId = 1,
                  !.localRole = IF c = 1 THEN "host" ELSE "guest",
                  !.localStream = c,
                  !.selectedAudioId = FirstDevice, !.selectedVideoId = FirstDevice,
                  !.audioDevices = Devices, !.videoDevices = Devices,
                  !.isAuthReady = TRUE]

InitRoster ==
  /\ db = [m \in Meetings |-> EmptyRoster]
  /\ onDisc = {}
  /\ app = [c \in Clients |-> Lobby(c)]
  /\ listener = [c \in Clients |-> NoListener]
  /\ pend = [c \in Clients |-> <<>>]
  /\ streams = [c \in Clients |->
                  NewStream("camera", TRUE, TRUE, FirstDevice, c, NoMeeting)]
  /\ issued = {1}
  /\ joined = [c \in Clients |-> NoMeeting]
  /\ acquired = [c \in Clients |-> TRUE]
  /\ hostMuted = [c \in Clients |-> FALSE]
  /\ kicked = [c \in Clients |-> NoMeeting]
  /\ clicks = 0
  /\ limit = MaxRosterClicks
  /\ created = [c \in Clients |-> c = 1]
  /\ lc = [c \in Clients |-> NewLiveClient]
  /\ tabs = NoTabs

NextRoster ==
  \E c \in Clients :
    \/ StartMeeting(c)
    \/ LeaveMeeting(c)
    \/ ToggleMute(c)
    \/ Snapshot(c)
    \/ MuteAll(c)
    \/ \E i \in 1..(2 * MaxPending) :
         \/ SetDone(c, i)
         \/ AiDone(c, i)
    \/ \E t \in Clients :
         \/ MuteParticipant(c, t)
         \/ KickParticipant(c, t)
         \/ ToggleParticipantRole(c, t)

SpecRoster == InitRoster /\ [][NextRoster]_vars

\* SpecShare: one joined session and its screen capture.  It starts where
\* session 1 opened the link of meeting 1, was refused camera and microphone,
\* joined as a guest, has processed the roster, and has clicked the share
\* button twice before choosing a source: two getDisplayMedia are pending.
ShareRoster == [EmptyRoster EXCEPT ![1] = LocalUser(FALSE, FALSE, "guest")]

ShareApp ==
  [InitFromUrl(1) EXCEPT !.step = "meeting", !.isAuthReady = TRUE,
                         !.participants = ShareRoster]

InitShare ==
  /\ db = [m \in Meetings |-> IF m = 1 THEN ShareRoster ELSE EmptyRoster]
  /\ onDisc = {<<1, 1>>}
  /\ app = [c \in Clients |-> IF c = 1 THEN ShareApp ELSE InitApp]
  /\ listener = [c \in Clients |->
                   IF c = 1 THEN [Resubscribe(InitApp, ShareApp, NoListener)
                                    EXCEPT !.pending = FALSE]
                   ELSE NoListener]
  /\ pend = [c \in Clients |->
               IF c = 1 THEN <<Cont("display", ShareApp), Cont("display", ShareApp)>>
               ELSE <<>>]
  /\ streams = <<>>
  /\ issued = {1}
  /\ joined = [c \in Clients |-> IF c = 1 THEN 1 ELSE NoMeeting]
  /\ acquired = [c \in Clients |-> FALSE]
  /\ hostMuted = [c \in Clients |-> FALSE]
  /\ kicked = [c \in Clients |-> NoMeeting]
  /\ clicks = 0
  /\ limit = MaxShareClicks
  /\ created = [c \in Clients |-> FALSE]
  /\ lc = [c \in Clients |-> NewLiveClient]
  /\ tabs = NoTabs

NextShare ==
  \E c \in Session :
    \/ ToggleScreenShare(c)
    \/ \E i \in 1..(2 * MaxPending) : DisplayDone(c, i)
    \/ \E s \in 1..MaxStreams : CaptureEnded(c, s)
    \/ Snapshot(c)
    \/ ToggleMute(c)
    \/ ToggleVideo(c)
    \/ LeaveMeeting(c)

SpecShare == InitShare /\ [][NextShare]_vars

\* SpecDevice: one session and its camera stream, from the lobby on.  It
\* starts where session 1 has created meeting 1 and passed the name screen:
\* the preview stream is fed by the first listed devices, which are selected.
InitDevice ==
  /\ db = [m \in Meetings |-> EmptyRoster]
  /\ onDisc = {}
  /\ app = [c \in Clients |-> IF c = 1 THEN Lobby(1) ELSE InitApp]
  /\ listener = [c \in Clients |-> NoListener]
  /\ pend = [c \in Clients |-> <<>>]
  /\ streams = <<NewStream("camera", TRUE, TRUE, FirstDevice, 1, NoMeeting)>>
  /\ issued = {1}
  /\ joined = [c \in Clients |-> NoMeeting]
  /\ acquired = [c \in Clients |-> c = 1]
  /\ hostMuted = [c \in Clients |-> FALSE]
  /\ kicked = [c \in Clients |-> NoMeeting]
  /\ clicks = 0
  /\ limit = MaxDeviceClicks
  /\ created = [c \in Clients |-> c = 1]
  /\ lc = [c \in Clients |-> NewLiveClient]
  /\ tabs = NoTabs

NextDevice ==
  \E c \in Session :
    \/ HandleDeviceChange(c)
    \/ StartMeeting(c)
    \/ LeaveMeeting(c)
    \/ ToggleMute(c)
    \/ ToggleVideo(c)
    \/ Snapshot(c)
    \/ \E i \in 1..(2 * MaxPending) :
         \/ DeviceDone(c, i)
         \/ SetDone(c, i)
         \/ GumDone(c, i)
         \/ AiDone(c, i)

SpecDevice == InitDevice /\ [][NextDevice]_vars

\* SpecJoin: the sessions of SpecRoster with a smaller budget of gestures.
InitJoin ==
  /\ db = [m \in Meetings |-> EmptyRoster]
  /\ onDisc = {}
  /\ app = [c \in Clients |-> Lobby(c)]
  /\ listener = [c \in Clients |-> NoListener]
  /\ pend = [c \in Clients |-> <<>>]
  /\ streams = [c \in Clients |->
                  NewStream("camera", TRUE, TRUE, FirstDevice, c, NoMeeting)]
  /\ issued = {1}
  /\ joined = [c \in Clients |-> NoMeeting]
  /\ acquired = [c \in Clients |-> TRUE]
  /\ hostMuted = [c \in Clients |-> FALSE]
  /\ kicked = [c \in Clients |-> NoMeeting]
  /\ clicks = 0
  /\ limit = MaxJoinClicks
  /\ created = [c \in Clients |-> c = 1]
  /\ lc = [c \in Clients |-> NewLiveClient]
  /\ tabs = NoTabs

SpecJoin == InitJoin /\ [][NextRoster]_vars

\* ---- peer media ----
\* The sessions exchange roster records only: renderGrid draws a placeholder
\* where a remote screen would be shown, and no handler, the roster handler
\* included, creates a peer connection or sends an offer to another session.
PeerEntries(c) == {}

OffersSent(c) == {}

\* the participants of meeting m that are not agents
Members(m) == {k \in Clients : db[m][k].exists /\ db[m][k].role # "ai"}

InMeeting(c, m) ==
  app[c].step = "meeting" /\ listener[c].active /\ listener[c].meetingId = m

\* ---- unclean disconnect ----
\* The tab of session c is closed or loses its connection for good: nothing
\* of the session runs any more, the browser ends its tracks, and the server
\* runs the removals that onDisconnect(userRef).remove() registered for it.
ClosedApp == [InitApp EXCEPT !.step = "closed"]

Closed(c) == app[c].step = "closed"

Disconnect(c) ==
  /\ NoClick
  /\ ~Closed(c)
  /\ Commit(c, listener, ClosedApp,
            [m \in Meetings |->
               [k \in Keys |-> IF k = c /\ <<m, c>> \in onDisc THEN NoRec ELSE db[m][k]]])
  /\ onDisc' = {e \in onDisc : e[2] # c}
  /\ pend' = [pend EXCEPT ![c] = <<>>]
  /\ streams' = [s \in DOMAIN streams |->
                   IF streams[s].owner = c THEN [streams[s] EXCEPT !.live = FALSE]
                   ELSE streams[s]]
  /\ LeaveGhost(c)
  /\ lc' = [lc EXCEPT ![c] = NewLiveClient]
  /\ UNCHANGED <<issued, tabs>>

\* SpecUnclean: the sessions of SpecJoin, any of which may disconnect.  Events
\* that are due (a value event, the answer to a write) are delivered.
NextUnclean ==
  \/ NextRoster
  \/ \E c \in Clients : Disconnect(c)

Delivered ==
  \A c \in Clients :
    /\ WF_vars(Snapshot(c))
    /\ \A i \in 1..(2 * MaxPending) : WF_vars(SetDone(c, i)) /\ WF_vars(AiDone(c, i))

SpecUnclean == InitJoin /\ [][NextUnclean]_vars /\ Delivered

\* ---- the steps of a LiveClient ----
\* One step of the LiveClient of session c: its new state, and the roster
\* after the app's speaking callback.
LiveStep(c, w2) ==
  /\ lc' = [lc EXCEPT ![c] = w2]
  /\ Commit(c, listener, app[c], Raised(db, w2))
  /\ UNCHANGED <<onDisc, pend, streams, issued, tabs>>
  /\ GhostSame

CallConnect(c) ==
  /\ Click
  /\ LiveStep(c, AppConnect(lc[c]))

CallDisconnect(c) ==
  /\ Click
  /\ LiveStep(c, AppDisconnect(lc[c]))

\* a suspended connect() runs to its next await or to its end
ConnectContinues(c, i) ==
  /\ NoClick
  /\ i \in DOMAIN lc[c].calls
  /\ LET w == lc[c]
     IN \/ /\ w.calls[i].pos = "resumeIn"
           /\ LiveStep(c, LiveResumedIn(w, i))
        \/ /\ w.calls[i].pos = "resumeOut"
           /\ LiveStep(c, LiveResumedOut(w, i))
        \/ /\ w.calls[i].pos = "gum"
           /\ \/ LiveStep(c, LiveGumResolved(w, i))
              \/ LiveStep(c, LiveGumRejected(w, i))
              \/ LiveStep(c, LiveGumThrew(w, i))

SessionOpens(c, s) ==
  /\ NoClick
  /\ s \in DOMAIN lc[c].sessions
  /\ lc[c].sessions[s].state = "connecting"
  /\ LiveStep(c, LiveOnOpen(lc[c], s))

SessionFails(c, s) ==
  /\ NoClick
  /\ s \in DOMAIN lc[c].sessions
  /\ lc[c].sessions[s].state \in {"connecting", "open"}
  /\ LiveStep(c, LiveOnError(lc[c], s))

SessionCloses(c, s) ==
  /\ NoClick
  /\ s \in DOMAIN lc[c].sessions
  /\ lc[c].sessions[s].state \in {"connecting", "open"}
  /\ LiveStep(c, LiveOnClose(lc[c], s))

SessionMessage(c, s) ==
  /\ NoClick
  /\ s \in DOMAIN lc[c].sessions
  /\ lc[c].sessions[s].state = "open" /\ ~lc[c].sessions[s].closeAsked
  /\ lc[c].plays < MaxPlays
  /\ LiveStep(c, LiveOnMessage(lc[c]))

BufferEnded(c) ==
  /\ NoClick
  /\ lc[c].plays > 0
  /\ \E caughtUp \in BOOLEAN : LiveStep(c, LiveOnEnded(lc[c], caughtUp))

AudioProcess(c, n) ==
  /\ NoClick
  /\ n \in DOMAIN lc[c].nodes
  /\ lc[c].nodes[n].wired /\ lc[c].pairs[lc[c].nodes[n].pair]
  /\ LiveStep(c, LiveAudioProcess(lc[c]))

\* SpecLive: the LiveClient of one session, with a caller that calls
\* connect() and disconnect() in any order.
InitLive ==
  /\ db = [m \in Meetings |-> EmptyRoster]
  /\ onDisc = {}
  /\ app = [c \in Clients |-> InitApp]
  /\ listener = [c \in Clients |-> NoListener]
  /\ pend = [c \in Clients |-> <<>>]
  /\ streams = <<>>
  /\ issued = {}
  /\ joined = [c \in Clients |-> NoMeeting]
  /\ acquired = [c \in Clients |-> FALSE]
  /\ hostMuted = [c \in Clients |-> FALSE]
  /\ kicked = [c \in Clients |-> NoMeeting]
  /\ clicks = 0
  /\ limit = MaxLiveClicks
  /\ created = [c \in Clients |-> FALSE]
  /\ lc = [c \in Clients |-> NewLiveClient]
  /\ tabs = NoTabs

NextLive ==
  \E c \in Session :
    \/ CallConnect(c)
    \/ CallDisconnect(c)
    \/ BufferEnded(c)
    \/ \E i \in 1..MaxLiveClicks :
         \/ ConnectContinues(c, i)
         \/ SessionOpens(c, i)
         \/ SessionFails(c, i)
         \/ SessionCloses(c, i)
         \/ SessionMessage(c, i)
         \/ AudioProcess(c, i)

SpecLive == InitLive /\ [][NextLive]_vars

\* ---- toggleAiAssistant ----
\* participants.find(p => p.role === 'ai'): only the gemini-ai record carries
\* that role.  The handler reads the participants of its own render.
ToggleAiAssistant(c) ==
  /\ app[c].step = "meeting"
  /\ Click
  /\ LET a == app[c]
         aiSpeaking == \E k \in Keys : /\ a.participants[k].role = "ai"
                                       /\ a.participants[k].isSpeaking
         w2 == IF aiSpeaking THEN AppDisconnect(lc[c]) ELSE AppConnect(lc[c])
         d1 == Raised(db, w2)
         d2 == IF aiSpeaking /\ a.localRole = "host"
               THEN DbUpdate(d1, a.meetingId, AiKey, "isSpeaking", FALSE)
               ELSE d1
     IN /\ lc' = [lc EXCEPT ![c] = w2]
        /\ Commit(c, listener, a, d2)
  /\ UNCHANGED <<onDisc, pend, streams, issued, tabs>>
  /\ GhostSame

\* SpecAgent: session 1 has created meeting 1 and joined it as its organizer;
\* the roster holds its record and the assistant's.
AgentRoster ==
  [EmptyRoster EXCEPT ![1] = LocalUser(FALSE, FALSE, "host"),
                      ![AiKey] = AI_PARTICIPANT]

AgentApp ==
  [InitApp EXCEPT !.step = "meeting", !.meetingId = 1, !.localRole = "host",
                  !.isAuthReady = TRUE, !.participants = AgentRoster]

InitAgent ==
  /\ db = [m \in Meetings |-> IF m = 1 THEN AgentRoster ELSE EmptyRoster]
  /\ onDisc = {<<1, 1>>}
  /\ app = [c \in Clients |-> IF c = 1 THEN AgentApp ELSE InitApp]
  /\ listener = [c \in Clients |->
                   IF c = 1 THEN [Resubscribe(InitApp, AgentApp, NoListener)
                                    EXCEPT !.pending = FALSE]
                   ELSE NoListener]
  /\ pend = [c \in Clients |-> <<>>]
  /\ streams = <<>>
  /\ issued = {1}
  /\ joined = [c \in Clients |-> IF c = 1 THEN 1 ELSE NoMeeting]
  /\ acquired = [c \in Clients |-> FALSE]
  /\ hostMuted = [c \in Clients |-> FALSE]
  /\ kicked = [c \in Clients |-> NoMeeting]
  /\ clicks = 0
  /\ limit = MaxAgentClicks
  /\ created = [c \in Clients |-> c = 1]
  /\ lc = [c \in Clients |-> NewLiveClient]
  /\ tabs = NoTabs

NextAgent ==
  \E c \in Session :
    \/ ToggleAiAssistant(c)
    \/ ToggleMute(c)
    \/ LeaveMeeting(c)
    \/ Snapshot(c)
    \/ BufferEnded(c)
    \/ \E i \in 1..MaxAgentClicks :
         \/ ConnectContinues(c, i)
         \/ SessionOpens(c, i)
         \/ SessionFails(c, i)
         \/ SessionCloses(c, i)
         \/ SessionMessage(c, i)
         \/ AudioProcess(c, i)

SpecAgent == InitAgent /\ [][NextAgent]_vars

\* ------------------------------------------------------------------------
\* The BroadcastChannel variant of the app (tab sync without a database)
\* ------------------------------------------------------------------------
Tabs == 1..MaxTabs

\* participant ids: 'local', 'gemini-ai', and user-<random> as 1, 2, ...
Local == 0
GeminiAi == -1

\* A participant of the variant.  name is the userName typed in the tab that
\* the record describes; the user of tab t is named t, the assistant 0.
TabAi == [id |-> GeminiAi, name |-> 0, isMuted |-> FALSE, role |-> "ai"]

\* a payload that carries an id only, or nothing
IdOnly(id) == [id |-> id, name |-> 0, isMuted |-> FALSE, role |-> "none"]

\* the useState values of a tab on its first render
InitTab ==
  [step |-> "landing", localRole |-> "guest", isMuted |-> FALSE,
   participants |-> <<>>]

\* a tab that has passed the landing and name screens
LobbyTab(role) == [InitTab EXCEPT !.step = "lobby", !.localRole = role]

HasId(ps, id) == \E i \in DOMAIN ps : ps[i].id = id

\* participants.find(p => p.id === id), for a list that has one
Find(ps, id) == ps[CHOOSE i \in DOMAIN ps : ps[i].id = id /\ \A j \in 1..(i - 1) : ps[j].id # id]

\* prev.map(p => p.id === id ? rec : p)
Replace(ps, id, rec) == [i \in DOMAIN ps |-> IF ps[i].id = id THEN rec ELSE ps[i]]

\* prev.filter(p => p.id !== id)
Without(ps, id) == SelectSeq(ps, LAMBDA q : q.id # id)

\* the add of NEW_PARTICIPANT and EXISTING_PARTICIPANT; prev is returned
\* unchanged when the id is present
Added(ps, rec) == IF HasId(ps, rec.id) THEN ps ELSE Append(ps, rec)

\* A message: what postMessage carries, and two history fields: the tab that
\* posted it and the user (by name) its sender acted on.
Msg(type, payload, from, about) ==
  [type |-> type, payload |-> payload, from |-> from, about |-> about]

\* the sync effect (deps [participants]) of tab t for the list ps
SyncEffect(t, ps) ==
  IF HasId(ps, Local)
  THEN <<Msg("UPDATE_PARTICIPANT", Find(ps, Local), t, t)>>
  ELSE <<>>

\* channel.postMessage: every other tab's channel object queues the message
Posted(box, t, msgs) == [u \in Tabs |-> IF u = t THEN box[u] ELSE box[u] \o msgs]

\* the number of messages queued in all tabs
RECURSIVE QueuedUpTo(_, _)
QueuedUpTo(box, n) == IF n = 0 THEN 0 ELSE Len(box[n]) + QueuedUpTo(box, n - 1)

InFlight(box) == QueuedUpTo(box, MaxTabs)

TabSame == /\ UNCHANGED <<db, onDisc, app, listener, pend, streams, issued, lc>>
           /\ GhostSame

\* One step of tab t: its state becomes tab2, the handler posts msgs, and a
\* participants array that is a new object (changed) re-runs the sync effect.
TabStep(t, box, tab2, msgs, changed, ids2) ==
  LET all == msgs \o (IF changed THEN SyncEffect(t, tab2.participants) ELSE <<>>)
      box2 == Posted(box, t, all)
  IN /\ InFlight(box2) <= MaxInFlight
     /\ tabs' = [tab |-> [tabs.tab EXCEPT ![t] = tab2],
                 inbox |-> box2,
                 ids |-> ids2,
                 sent |-> {all[i].type : i \in DOMAIN all}]
     /\ TabSame

\* startMeeting of the variant, with the preview stream already on the
\* selected devices (no await before setStep)
TabStartMeeting(t) ==
  /\ tabs.tab[t].step = "lobby"
  /\ Click
  /\ LET k == tabs.tab[t]
         localUser == [id |-> Local, name |-> t, isMuted |-> k.isMuted, role |-> k.localRole]
         fresh == tabs.ids + 1
     IN TabStep(t, tabs.inbox,
                [k EXCEPT !.participants = <<TabAi, localUser>>, !.step = "meeting"],
                <<Msg("NEW_PARTICIPANT", [localUser EXCEPT !.id = fresh], t, t)>>,
                TRUE, fresh)

\* leaveMeeting of the variant; participants is not reset
TabLeaveMeeting(t) ==
  /\ tabs.tab[t].step = "meeting"
  /\ Click
  /\ LET k == tabs.tab[t]
     IN TabStep(t, tabs.inbox,
                [k EXCEPT !.step = "landing", !.localRole = "guest"],
                IF HasId(k.participants, Local)
                THEN <<Msg("REMOVE_PARTICIPANT", IdOnly(Local), t, t)>>
                ELSE <<>>,
                FALSE, tabs.ids)

TabToggleMute(t) ==
  /\ tabs.tab[t].step \in {"lobby", "meeting"}
  /\ Click
  /\ LET k == tabs.tab[t]
     IN TabStep(t, tabs.inbox,
                [k EXCEPT !.isMuted = ~k.isMuted,
                          !.participants =
                             [i \in DOMAIN k.participants |->
                                IF k.participants[i].id = Local
                                THEN [k.participants[i] EXCEPT !.isMuted = ~k.isMuted]
                                ELSE k.participants[i]]],
                <<>>, TRUE, tabs.ids)

\* renderSidebar: the organizer's panel is shown when the 'local' entry has
\* the role host
TabIsLocalHost(k) ==
  /\ k.step = "meeting"
  /\ HasId(k.participants, Local)
  /\ Find(k.participants, Local).role = "host"

TabMuteAll(t) ==
  /\ TabIsLocalHost(tabs.tab[t])
  /\ Click
  /\ LET k == tabs.tab[t]
     IN TabStep(t, tabs.inbox,
                [k EXCEPT !.participants =
                             [i \in DOMAIN k.participants |->
                                IF k.participants[i].role \in {"host", "ai"}
                                THEN k.participants[i]
                                ELSE [k.participants[i] EXCEPT !.isMuted = TRUE]]],
                <<Msg("HOST_ACTION_MUTE_ALL", IdOnly(Local), t, t)>>,
                TRUE, tabs.ids)

\* kickParticipant(p.id) from the row i of the participants panel
TabKickParticipant(t, i) ==
  /\ TabIsLocalHost(tabs.tab[t])
  /\ i \in DOMAIN tabs.tab[t].participants
  /\ tabs.tab[t].participants[i].role # "ai"
  /\ tabs.tab[t].participants[i].id # Local
  /\ Click
  /\ LET k == tabs.tab[t]
         p == k.participants[i]
     IN TabStep(t, tabs.inbox,
                [k EXCEPT !.participants = Without(k.participants, p.id)],
                <<Msg("HOST_ACTION_KICK", IdOnly(p.id), t, p.name)>>,
                TRUE, tabs.ids)

\* channel.onmessage.  The handler is assigned in the mount effect (deps []),
\* so step, participants and leaveMeeting in its body are those of the first
\* render; the functional updates read the current list.
OnMessage(t, k, m) ==
  LET ps == k.participants
      none == [tab |-> k, msgs |-> <<>>, changed |-> FALSE]
  IN CASE m.type = "NEW_PARTICIPANT" ->
            [tab |-> [k EXCEPT !.participants = Added(ps, m.payload)],
             msgs |-> IF InitTab.step = "meeting" /\ HasId(InitTab.participants, Local)
                      THEN <<Msg("EXISTING_PARTICIPANT", Find(InitTab.participants, Local), t, t)>>
                      ELSE <<>>,
             changed |-> ~HasId(ps, m.payload.id)]
       [] m.type = "EXISTING_PARTICIPANT" ->
            [tab |-> [k EXCEPT !.participants = Added(ps, m.payload)],
             msgs |-> <<>>,
             changed |-> ~HasId(ps, m.payload.id)]
       [] m.type = "UPDATE_PARTICIPANT" ->
            [tab |-> [k EXCEPT !.participants = Replace(ps, m.payload.id, m.payload)],
             msgs |-> <<>>, changed |-> TRUE]
       [] m.type = "REMOVE_PARTICIPANT" ->
            [tab |-> [k EXCEPT !.participants = Without(ps, m.payload.id)],
             msgs |-> <<>>, changed |-> TRUE]
       [] m.type = "HOST_ACTION_MUTE_ALL" ->
            IF /\ HasId(InitTab.participants, Local)
               /\ Find(InitTab.participants, Local).role # "host"
            THEN [tab |-> [k EXCEPT !.isMuted = TRUE,
                                    !.participants =
                                       [i \in DOMAIN ps |->
                                          IF ps[i].id = Local
                                          THEN [ps[i] EXCEPT !.isMuted = TRUE]
                                          ELSE ps[i]]],
                  msgs |-> <<>>, changed |-> TRUE]
            ELSE none
       [] m.type = "HOST_ACTION_KICK" ->
            IF m.payload.id = Local
            THEN [tab |-> [k EXCEPT !.step = "landing", !.localRole = "guest"],
                  msgs |-> IF HasId(InitTab.participants, Local)
                           THEN <<Msg("REMOVE_PARTICIPANT", IdOnly(Local), t, t)>>
                           ELSE <<>>,
                  changed |-> FALSE]
            ELSE [tab |-> [k EXCEPT !.participants = Without(ps, m.payload.id)],
                  msgs |-> <<>>, changed |-> TRUE]

\* the oldest message queued for tab t is handled
TabReceive(t) ==
  /\ tabs.inbox[t] # <<>>
  /\ NoClick
  /\ LET r == OnMessage(t, tabs.tab[t], Head(tabs.inbox[t]))
     IN TabStep(t, [tabs.inbox EXCEPT ![t] = Tail(@)], r.tab, r.msgs, r.changed, tabs.ids)

\* SpecTabs: tab 1 has created the meeting, the other tabs have opened its
\* link; each has typed its name and is in the lobby.
InitTabs ==
  /\ db = [m \in Meetings |-> EmptyRoster]
  /\ onDisc = {}
  /\ app = [c \in Clients |-> InitApp]
  /\ listener = [c \in Clients |-> NoListener]
  /\ pend = [c \in Clients |-> <<>>]
  /\ streams = <<>>
  /\ issued = {}
  /\ joined = [c \in Clients |-> NoMeeting]
  /\ acquired = [c \in Clients |-> FALSE]
  /\ hostMuted = [c \in Clients |-> FALSE]
  /\ kicked = [c \in Clients |-> NoMeeting]
  /\ clicks = 0
  /\ limit = MaxTabClicks
  /\ created = [c \in Clients |-> FALSE]
  /\ lc = [c \in Clients |-> NewLiveClient]
  /\ tabs = [tab |-> [t \in Tabs |-> LobbyTab(IF t = 1 THEN "host" ELSE "guest")],
             inbox |-> [t \in Tabs |-> <<>>],
             ids |-> 0,
             sent |-> {}]

NextTabs ==
  \E t \in Tabs :
    \/ TabStartMeeting(t)
    \/ TabLeaveMeeting(t)
    \/ TabToggleMute(t)
    \/ TabMuteAll(t)
    \/ TabReceive(t)
    \/ \E i \in 1..(MaxTabs + 1) : TabKickParticipant(t, i)

\* every queued message is handled
TabsDelivered == \A t \in Tabs : WF_vars(TabReceive(t))

SpecTabs == InitTabs /\ [][NextTabs]_vars

SpecTabsFair == InitTabs /\ [][NextTabs]_vars /\ TabsDelivered

\* ------------------------------------------------------------------------
\* Properties
\* ------------------------------------------------------------------------

\* nothing is left to run in session c: no continuation, no value event
Quiet(c) == pend[c] = <<>> /\ ~listener[c].pending

\* session c invokes one of the host controls
Moderates(c) ==
  \/ MuteAll(c)
  \/ \E t \in Clients :
       \/ MuteParticipant(c, t)
       \/ KickParticipant(c, t)
       \/ ToggleParticipantRole(c, t)

\* C1: a moderation command (muteParticipant, kickParticipant,
\* toggleParticipantRole, muteAll) invoked by a session whose roster role is
\* not 'host' is rejected locally: it writes nothing, the roster is unchanged.
C1_NonOrganizerRejected ==
  [][\A c \in Clients :
       (Moderates(c) /\ RosterRole(c, app[c].meetingId) # "host") => db' = db]_vars

AllQuiet == \A c \in Clients : Quiet(c)

\* C2: once an organizer's kickParticipant(X) removed the record of joined X
\* and nothing is left to run in any session, X has run its leave cleanup (it
\* is not in step 'meeting'), and no other session in that meeting lists X.
C2_KickedLeaves ==
  \A x \in Clients :
    (kicked[x] # NoMeeting /\ AllQuiet) =>
       /\ app[x].step # "meeting"
       /\ \A y \in Clients \ {x} :
            (listener[y].active /\ listener[y].meetingId = kicked[x])
               => ~app[y].participants[x].exists

\* C3: leaveMeeting by a joined participant P removes P's own roster record
\* and leaves P in step 'landing' with an empty meeting id and an empty
\* participant list.
C3_LeaveRemovesRecord ==
  [][\A c \in Clients :
       (LeaveMeeting(c) /\ joined[c] # NoMeeting /\ joined[c] = app[c].meetingId) =>
          /\ ~db'[app[c].meetingId][c].exists
          /\ app'[c].step = "landing"
          /\ app'[c].meetingId = NoMeeting
          /\ app'[c].participants = EmptyRoster]_vars

\* a session that joined (its onDisconnect is registered) is back at
\* 'landing' and its record is gone
C3_Witness ==
  \E c \in Clients, m \in Meetings :
    /\ <<m, c>> \in onDisc
    /\ app[c].step = "landing" /\ app[c].meetingId = NoMeeting
    /\ ~db[m][c].exists

\* C4: whenever a local stream exists, its audio tracks are enabled exactly
\* when isMuted is false and its video tracks exactly when isVideoOff is false.
C4_TracksFollowFlags ==
  \A c \in Clients :
    app[c].localStream # NoStream =>
       /\ streams[app[c].localStream].audioEnabled = ~app[c].isMuted
       /\ streams[app[c].localStream].videoEnabled = ~app[c].isVideoOff

\* C5: when an organizer set the roster isMuted of joined X to true while X
\* was locally unmuted and X has processed the roster since, X is locally
\* muted and every audio track of its current local stream is disabled.
C5_HostMuteTakesEffect ==
  \A x \in Clients :
    (hostMuted[x] /\ listener[x].active /\ Quiet(x)) =>
       /\ app[x].isMuted
       /\ app[x].localStream # NoStream => ~streams[app[x].localStream].audioEnabled

\* C6: a record at participants/{P} exists only while P is joined, that is
\* from the success of P's startMeeting until P leaves or is removed.
C6_RecordOnlyWhileJoined ==
  \A m \in Meetings, c \in Clients : db[m][c].exists => joined[c] = m

\* C7: for a joined participant with nothing left to run (no roster write
\* awaited, no value event due), the isMuted and isVideoOff fields of its
\* roster record equal its local mute and camera-off state.
C7_RosterMirrorsLocal ==
  \A c \in Clients :
    (/\ joined[c] # NoMeeting /\ joined[c] = app[c].meetingId
     /\ app[c].step = "meeting" /\ listener[c].active /\ Quiet(c)
     /\ db[joined[c]][c].exists) =>
       /\ db[joined[c]][c].isMuted = app[c].isMuted
       /\ db[joined[c]][c].isVideoOff = app[c].isVideoOff

\* C8: if writing the participant's own record fails in startMeeting the join
\* is aborted: step does not change, no disconnect cleanup is registered, no
\* AI record is asked for or written, and no roster subscription is started.
C8_FailedWriteAbortsJoin ==
  [][\A c \in Clients : \A i \in DOMAIN pend[c] :
       (pend[c][i].op = "set" /\ SetRejected(c, i) /\ SetDone(c, i)) =>
          /\ app'[c].step = app[c].step
          /\ onDisc' = onDisc
          /\ db' = db
          /\ listener' = listener
          /\ pend'[c] = Drop(pend[c], i)]_vars

\* the rules dialog is up after a denied write: the session is still in the
\* lobby, with no cleanup registered, no subscription and nothing pending
C8_Witness ==
  \E c \in Clients :
    /\ app[c].dbError
    /\ app[c].step = "lobby"
    /\ \A m \in Meetings \cup {NoMeeting} : <<m, c>> \notin onDisc
    /\ ~listener[c].active
    /\ pend[c] = <<>>

\* C9: a rejected getUserMedia or getDisplayMedia is never fatal: from the
\* name step the lobby still opens, after the roster write the meeting still
\* opens, and a failed screen share or device switch changes neither the step
\* nor the roster.
C9_AcquisitionNeverFatal ==
  [][\A c \in Clients : \A i \in DOMAIN pend[c] :
       LET op == pend[c][i].op
       IN /\ (op = "refresh" /\ RefreshRejected(c, i) /\ RefreshDone(c, i)) =>
               app'[c].step = "lobby"
          /\ (op = "gum" /\ GumRejected(c, i) /\ GumDone(c, i)) =>
               app'[c].step = "meeting"
          /\ (\/ (op = "display" /\ DisplayRejected(c, i) /\ DisplayDone(c, i))
              \/ (op = "devchg" /\ DeviceRejected(c, i) /\ DeviceDone(c, i))) =>
               (app'[c].step = app[c].step /\ db' = db)]_vars

\* a session is in the meeting, with its record, although none of its
\* acquisitions was granted
C9_Witness ==
  \E c \in Clients, m \in Meetings :
    /\ ~acquired[c]
    /\ app[c].step = "meeting" /\ app[c].localStream = NoStream
    /\ db[m][c].exists /\ db[m][c].hasId

LiveScreens(c) ==
  {s \in DOMAIN streams :
     streams[s].kind = "screen" /\ streams[s].owner = c /\ streams[s].live}

\* C11: for a joined participant with nothing pending, the roster
\* isScreenSharing flag is true exactly when the client holds a screen capture
\* whose tracks are live, and a live capture is the installed screenStream.
C11_ShareFlagMatchesCapture ==
  \A c \in Clients :
    (/\ joined[c] # NoMeeting /\ joined[c] = app[c].meetingId
     /\ app[c].step = "meeting" /\ Quiet(c)
     /\ db[joined[c]][c].exists) =>
       /\ db[joined[c]][c].isScreenSharing = (LiveScreens(c) # {})
       /\ app[c].screenStream = NoStream => LiveScreens(c) = {}

\* C12: a failed device switch leaves the local media state unchanged: the
\* stream that was installed stays installed with its tracks live, and the
\* selected microphone is still the device that feeds it.
C12_FailedSwitchKeepsState ==
  [][\A c \in Clients : \A i \in DOMAIN pend[c] :
       (/\ pend[c][i].op = "devchg"
        /\ app[c].localStream = pend[c][i].localStream
        /\ DeviceRejected(c, i) /\ DeviceDone(c, i)) =>
          /\ app'[c].localStream = app[c].localStream
          /\ streams'[app'[c].localStream].live
          /\ streams'[app'[c].localStream].audioDev = app'[c].selectedAudioId]_vars

LiveOwned(c) == {s \in DOMAIN streams : streams[s].owner = c /\ streams[s].live}

\* C13: after leave cleanup has run (the session is back on the landing
\* screen and nothing of it is in flight), no camera, microphone or screen
\* track acquired by that client is live and localStream and screenStream
\* are null, also when an acquisition was pending when the cleanup ran.
C13_LeaveReleasesMedia ==
  \A c \in Clients :
    (app[c].step = "landing" /\ Quiet(c)) =>
      /\ app[c].localStream = NoStream
      /\ app[c].screenStream = NoStream
      /\ LiveOwned(c) = {}

\* C14: every roster snapshot that a joined client processes before its
\* record is removed by a leave or a kick contains the client's own record,
\* and processing it keeps the client in the meeting: a freshly joined
\* client never evicts itself.
C14_SnapshotHasSelf ==
  [][\A c \in Clients :
       (/\ Snapshot(c)
        /\ joined[c] # NoMeeting /\ joined[c] = listener[c].meetingId) =>
          /\ db[joined[c]][c].exists /\ db[joined[c]][c].hasId
          /\ app'[c].step = "meeting"
          /\ app'[c].participants[c].exists]_vars

\* a joined client that processed a snapshot and lists itself next to a peer
C14_Witness ==
  \E c \in Clients : \E p \in Clients \ {c} :
    /\ joined[c] # NoMeeting /\ app[c].step = "meeting"
    /\ listener[c].active /\ ~listener[c].pending
    /\ app[c].participants[c].exists
    /\ app[c].participants[p].exists

\* no record of x is left in meeting m and no session subscribed to m lists x
Gone(x, m) ==
  /\ ~db[m][x].exists
  /\ \A y \in Clients \ {x} :
       (listener[y].active /\ listener[y].meetingId = m) => ~app[y].participants[x].exists

\* C15: once the removal of x's record is registered after a successful
\* join, an unclean disconnect of x is followed by the removal of the record
\* and by every remaining session's participant list excluding x.
C15_DisconnectCleansUp ==
  \A x \in Clients : \A m \in Meetings :
    [](<<m, x>> \in onDisc => [](Closed(x) => <>Gone(x, m)))

\* C16: handling a roster snapshot is idempotent and history-free: after a
\* joined client processed a non-empty snapshot that contains it, its
\* participant list is exactly the records of that snapshot, and processing
\* the same snapshot once more changes nothing of the client's state.
C16_SnapshotIdempotent ==
  [][\A c \in Clients :
       LET data == db[listener[c].meetingId]
       IN (/\ Snapshot(c)
           /\ joined[c] # NoMeeting /\ joined[c] = listener[c].meetingId
           /\ data[c].exists /\ data[c].hasId) =>
             /\ app'[c].participants = data
             /\ ListApp(c, app'[c], listener'[c], data) = app'[c]
             /\ ListStreams(c, streams', listener'[c], data) = streams']_vars

\* a joined client that an organizer muted: it processed the snapshot, lists
\* exactly its records, and the muted-by-host branch would run again on the
\* same snapshot
C16_Witness ==
  \E c \in Clients : \E p \in Clients \ {c} :
    /\ joined[c] # NoMeeting /\ app[c].step = "meeting"
    /\ listener[c].active /\ ~listener[c].pending
    /\ app[c].participants = db[joined[c]]
    /\ app[c].participants[c].exists /\ app[c].participants[p].exists
    /\ hostMuted[c] /\ app[c].isMuted
    /\ MutedByHost(c, listener[c], db[joined[c]])

\* C17: convergence: when the roster of the meeting a client is in ends up
\* stable with the members R, the set of peers the client holds a peer
\* connection entry for ends up equal to R without the client itself and
\* without agents.
C17_EntriesConverge ==
  \A c \in Clients : \A m \in Meetings : \A R \in SUBSET Clients :
    <>[](InMeeting(c, m) /\ Members(m) = R) => <>[](PeerEntries(c) = R \ {c})

\* C18: no double offer: when two clients of a meeting list each other and
\* nothing is left to run, exactly one of them has sent an offer to the
\* other, and it is the one whose id is the greater.
C18_SingleOffer ==
  \A a \in Clients : \A b \in Clients \ {a} : \A m \in Meetings :
    (/\ AllQuiet /\ InMeeting(a, m) /\ InMeeting(b, m)
     /\ app[a].participants[b].exists /\ app[b].participants[a].exists) =>
       /\ (b \in OffersSent(a)) # (a \in OffersSent(b))
       /\ b \in OffersSent(a) => a > b

LiveCameras(c) ==
  {s \in DOMAIN streams : streams[s].kind = "camera" /\ streams[s].owner = c /\ streams[s].live}

\* C27: at any time at most one camera/microphone capture stream acquired
\* by a session is live: installing a new local stream stops every local
\* stream acquired before.
C27_OneLiveCapture ==
  \A c \in Clients : Cardinality(LiveCameras(c)) <= 1

\* C22: once disconnect() has been called and until the next connect()
\* call, isConnected stays false, onConnectionStateChange(true) is not
\* emitted and no audio frame is sent to a session.
C22_DisconnectedStaysOff ==
  \A c \in Clients :
    lc[c].sinceDisc =>
      /\ ~lc[c].isConnected
      /\ "connection_true" \notin lc[c].out
      /\ "frame" \notin lc[c].out

\* C23: every disconnect() that tears down a connecting or connected client
\* emits onConnectionStateChange(false) and onSpeakingStateChange(false);
\* afterwards no onSpeakingStateChange(true) is delivered until connect() is
\* called again; and disconnect() repeated at once changes and emits nothing.
C23_DisconnectEmitsOnce ==
  /\ [][\A c \in Clients :
          (\/ CallDisconnect(c)
           \/ \E s \in DOMAIN lc[c].sessions :
                /\ lc'[c].sessions[s].state # lc[c].sessions[s].state
                /\ SessionCloses(c, s) \/ SessionFails(c, s)) =>
             /\ (lc[c].isConnected \/ lc[c].sessionPromise # NoObject) =>
                   {"connection_false", "speaking_false"} \subseteq lc'[c].out
             /\ LiveDisconnect(lc'[c]) = [lc'[c] EXCEPT !.out = {}]]_vars
  /\ [](\A c \in Clients : lc[c].torn => "speaking_true" \notin lc[c].out)

\* a client whose open session was torn down by disconnect(), both callbacks
\* raised, while a buffer of the agent's voice is still playing
C23_Witness ==
  \E c \in Clients :
    /\ lc[c].torn /\ lc[c].sinceDisc
    /\ lc[c].out = {"connection_false", "speaking_false"}
    /\ lc[c].plays > 0
    /\ \E s \in DOMAIN lc[c].sessions :
         lc[c].sessions[s].state = "open" /\ lc[c].sessions[s].closeAsked

Open(q) == {i \in DOMAIN q : q[i]}

LiveSessions(w) == {i \in DOMAIN w.sessions : w.sessions[i].state \in {"connecting", "open"}
                                              /\ ~w.sessions[i].closeAsked}

\* C24: a LiveClient holds at most one open microphone stream, one pair of
\* audio contexts and one live session at a time, whatever connect() and
\* disconnect() calls and session callbacks came before.
C24_OneStreamOneSession ==
  \A c \in Clients :
    /\ Cardinality(Open(lc[c].mics)) <= 1
    /\ Cardinality(Open(lc[c].pairs)) <= 1
    /\ Cardinality(LiveSessions(lc[c])) <= 1

\* C25: a close or error callback of a session that was already
\* disconnected does not tear down the session of a later connect(): when
\* connect() was called since and the client holds another session by
\* then, its stream, contexts, sessionPromise and isConnected stay as they
\* are.
C25_LateCloseIsHarmless ==
  [][\A c \in Clients : \A s \in DOMAIN lc[c].sessions :
       (/\ lc[c].sessions[s].closeAsked
        /\ ~lc[c].sinceDisc
        /\ lc[c].sessionPromise \notin {NoObject, s}
        /\ lc'[c].sessions[s].state # lc[c].sessions[s].state
        /\ SessionCloses(c, s) \/ SessionFails(c, s)) =>
          /\ lc'[c].isConnected = lc[c].isConnected
          /\ lc'[c].sessionPromise = lc[c].sessionPromise
          /\ lc'[c].stream = lc[c].stream
          /\ lc'[c].ctx = lc[c].ctx
          /\ lc'[c].mics = lc[c].mics
          /\ lc'[c].pairs = lc[c].pairs]_vars

\* C26: after disconnect() returns the client retains no audio context,
\* microphone stream, processor, source node or session reference and
\* isConnected is false, whatever state it was called in.
C26_DisconnectReleasesAll ==
  [][\A c \in Clients :
       CallDisconnect(c) =>
         /\ ~lc'[c].isConnected
         /\ lc'[c].ctx = NoObject
         /\ lc'[c].stream = NoObject
         /\ lc'[c].node = NoObject
         /\ lc'[c].sessionPromise = NoObject]_vars

\* C21: a speaking-state callback raised on a session that created the
\* meeting and has joined it leaves participants/gemini-ai with isSpeaking
\* at the reported value, and a toggleAiAssistant invoked while that
\* session's agent is playing speech, with every roster event delivered,
\* disconnects it.
C21_SpeakingReachesRoster ==
  [][\A c \in Clients :
       /\ (/\ created[c] /\ joined[c] # NoMeeting
           /\ lc'[c] # lc[c]
           /\ "speaking_true" \in lc'[c].out)
          => db'[joined[c]][AiKey].isSpeaking
       /\ (/\ created[c] /\ joined[c] # NoMeeting
           /\ lc'[c] # lc[c]
           /\ "speaking_false" \in lc'[c].out
           /\ "speaking_true" \notin lc'[c].out)
          => ~db'[joined[c]][AiKey].isSpeaking
       /\ (/\ ToggleAiAssistant(c) /\ created[c] /\ joined[c] # NoMeeting
           /\ lc[c].isConnected /\ lc[c].plays > 0
           /\ ~listener[c].pending)
          => ~lc'[c].isConnected]_vars

\* the entries with id 'local' in the list of tab t
LocalEntries(tb, t) ==
  {tb.tab[t].participants[i] : i \in {j \in DOMAIN tb.tab[t].participants :
                                        tb.tab[t].participants[j].id = Local}}

\* C29: in the BroadcastChannel variant the synchronisation traffic
\* quiesces: when every queued message is eventually handled, from some
\* point on no tab posts an UPDATE_PARTICIPANT message while all the tabs
\* are in the meeting.
C29_SyncQuiesces ==
  <>[][~(/\ tabs' # tabs
         /\ "UPDATE_PARTICIPANT" \in tabs'.sent
         /\ \A t \in Tabs : tabs.tab[t].step = "meeting")]_vars

\* C30: in the BroadcastChannel variant, handling an UPDATE_PARTICIPANT or a
\* REMOVE_PARTICIPANT posted by another tab leaves the receiving tab's own
\* 'local' entry as it was, and handling a HOST_ACTION_KICK makes the
\* receiving tab leave the meeting exactly when it is the tab of the
\* participant the organizer removed.
C30_MessageTouchesOnlyItsParticipant ==
  [][\A t \in Tabs :
       (TabReceive(t) /\ tabs.tab[t].step = "meeting")
       => LET m == Head(tabs.inbox[t])
          IN /\ m.type \in {"UPDATE_PARTICIPANT", "REMOVE_PARTICIPANT"}
                => LocalEntries(tabs', t) = LocalEntries(tabs, t)
             /\ m.type = "HOST_ACTION_KICK"
                => ((tabs'.tab[t].step = "landing") <=> (m.about = t))]_vars

====
